---- MODULE Spec2Model ----
(***************************************************************************)
(* rpomodoro: the Pomodoro timer state machine (App), its configuration    *)
(* editor and the render/input loop of src/main.rs.                        *)
(*                                                                         *)
(* Time is counted in whole seconds: every duration the program seeds is   *)
(* Duration::from_secs(minutes * 60), and the wall clock (Instant) is the  *)
(* variable now, which only moves forward. Each read of Instant::now(), in *)
(* update and in the space-key handler, may find the clock later than the  *)
(* read before it; a read later by a fraction of a second is explored as a *)
(* read later by one of Deltas.                                            *)
(* The u32 fields are naturals. x + 1 on u32 overflows at u32::MAX (a      *)
(* panic in a build with overflow checks, a wrap to 0 without): the        *)
(* increment is defined on the two 16-bit halves of the field, so that its *)
(* value is computed over the whole range of u32, while the configurations *)
(* drawn for the runs of the loop hold values below 2^31. The u16          *)
(* subtractions of the draw functions underflow on a small terminal in the *)
(* same two ways; SpecMain draws a terminal of 0 x 0 so that they happen.  *)
(***************************************************************************)
EXTENDS Integers, Sequences, FiniteSets, TLC

VARIABLES
    app,         \* struct App: config, state, cycle_count, time_remaining, ...
    file,        \* the config file on disk: [kind, cfg]
    now,         \* the wall clock read by Instant::now()
    pc,          \* position of main / run_app
    result,      \* what main returns (or "panic")
    raw_mode,    \* terminal raw mode enabled
    alt_screen,  \* alternate screen entered
    idle,        \* history: seconds of [last_tick, now] spent paused / in ConfigEdit
    run,         \* history: Work phases completed since start with no reset and no edit, else -1
    edits        \* history: number of field edits made so far

vars == <<app, file, now, pc, result, raw_mode, alt_screen, idle, run, edits>>

----------------------------------------------------------------------------
\* Bounds of the model

\* the wall clock stops being advanced at this many seconds
MaxNow == 120
\* at most this many increment/decrement keys are explored
MaxEdits == 1
\* completed Work phases counted by run
MaxRun == 5

\* seconds that may pass between one read of the clock and the next
Deltas == {0, 60}

----------------------------------------------------------------------------
\* Program constants

MaxWorkDuration == 120
MaxShortBreak == 60
MaxLongBreak == 120
MaxCycles == 10
MinField == 1
MaxCursor == 4
NumDigits == 10
SecondsPerMinute == 60

Min(a, b) == IF a <= b THEN a ELSE b
Max(a, b) == IF a >= b THEN a ELSE b
\* u32::saturating_sub / usize::saturating_sub
saturating_sub(a, b) == IF a >= b THEN a - b ELSE 0

Themes == <<"blue", "purple", "green", "red", "orange", "cyan">>

DefaultConfig ==
    [theme |-> "blue", work_duration |-> 25, short_break |-> 5,
     long_break |-> 15, cycles_before_long |-> 4]

\* Theme::from_name: the six known names, anything else is blue
ThemeFromName(name) ==
    IF \E i \in 1..Len(Themes) : Themes[i] = name THEN name ELSE "blue"

\* Duration::from_secs(minutes as u64 * 60)
FromMinutes(m) == m * SecondsPerMinute

\* a plain subtraction in place of checked_sub
checked_sub_unchecked(a, b) == [some |-> TRUE, val |-> a - b]

\* Duration::checked_sub: None when the subtrahend is larger
checked_sub(a, b) ==
    IF b <= a THEN [some |-> TRUE, val |-> a - b] ELSE [some |-> FALSE, val |-> 0]

----------------------------------------------------------------------------
\* Inputs

\* configurations a config.json may hold (serde accepts any u32 and any string)
\* short phases, so that they expire within MaxNow
ShortConfig ==
    [theme |-> "blue", work_duration |-> 1, short_break |-> 1,
     long_break |-> 2, cycles_before_long |-> 4]
\* every number zero, an unknown theme name
ZeroConfig ==
    [theme |-> "pink", work_duration |-> 0, short_break |-> 0,
     long_break |-> 0, cycles_before_long |-> 0]
\* a work phase of three-digit minutes
LongConfig ==
    [theme |-> "green", work_duration |-> 120, short_break |-> 5,
     long_break |-> 15, cycles_before_long |-> 4]
\* every field at the editor's maximum (work_duration as high as draws)
TopConfig ==
    [theme |-> "cyan", work_duration |-> 99, short_break |-> 60,
     long_break |-> 120, cycles_before_long |-> 10]
\* fields above the editor's maxima
OverConfig ==
    [theme |-> "red", work_duration |-> 2, short_break |-> 61,
     long_break |-> 200, cycles_before_long |-> 11]

Json(c) == [kind |-> "json", cfg |-> c]
NoJson(k) == [kind |-> k, cfg |-> DefaultConfig]

\* the files of Spec: the timer runs on them
Files ==
    { Json(ShortConfig), Json(ZeroConfig), Json(LongConfig), NoJson("nonutf8") }

\* the files of SpecEdit: the editor works on them
FilesEdit ==
    { Json(TopConfig), Json(OverConfig), Json(ZeroConfig), Json(ShortConfig),
      NoJson("absent"), NoJson("corrupt") }

\* the files of SpecMain
FilesMain ==
    { Json(ZeroConfig), Json(LongConfig), NoJson("nonutf8") }

\* terminal sizes reported by terminal::size() and Event::Resize
Sizes == { <<80, 24>> }

\* terminals too small for the subtractions of draw_statusline and draw_config
SmallSizes == { <<0, 0>> }

Codes == {"q", "Q", " ", "r", "s", "c", "j", "k", "h", "l", "Esc", "x"}
Keys ==
    { [code |-> c, ctrl |-> FALSE] : c \in Codes }
    \cup { [code |-> c, ctrl |-> TRUE] : c \in {"c", "C"} }

----------------------------------------------------------------------------
\* App

\* what the I/O calls of App::new do: all succeed ("ok"); create_dir_all, the
\* read, or fs::write fails with nothing written ("err"); fs::write fails after
\* it created the file, which is left cut short ("err_write": no effect where
\* the file exists, as fs::write is not called); terminal::size fails, after
\* the default file was written ("err_size")
LoadOutcomes == {"ok", "err", "err_write", "err_size"}

\* App::new: the outcome of loading `f` with terminal size `sz` at instant t
New(f, io, sz, t) ==
    LET config == IF f.kind = "json" THEN f.cfg ELSE DefaultConfig
        writes == f.kind = "absent" /\ io # "err"
        ok == /\ io \in {"ok", "err_write"}
              /\ f.kind # "nonutf8"
              /\ ~(writes /\ io = "err_write")
    IN  [ok |-> ok,
         file |-> CASE writes /\ io = "err_write" ->
                         [kind |-> "corrupt", cfg |-> DefaultConfig]
                    [] writes /\ io # "err_write" ->
                         [kind |-> "json", cfg |-> DefaultConfig]
                    [] OTHER -> f,
         app |-> [config |-> config,
                  state |-> "Work",
                  cycle_count |-> 0,
                  time_remaining |-> FromMinutes(config.work_duration),
                  last_tick |-> t,
                  paused |-> TRUE,
                  theme |-> ThemeFromName(config.theme),
                  width |-> sz[1],
                  height |-> sz[2],
                  config_mode |-> FALSE,
                  config_cursor |-> 0]]

\* advance_state that leaves the timer running in the new phase
advance_state_keeps_running(a) ==
    IF a.state = "Work"
    THEN LET cc == a.cycle_count + 1 IN
         IF cc >= a.config.cycles_before_long
         THEN [a EXCEPT !.state = "LongBreak",
                        !.time_remaining = FromMinutes(a.config.long_break),
                        !.cycle_count = 0]
         ELSE [a EXCEPT !.state = "ShortBreak",
                        !.time_remaining = FromMinutes(a.config.short_break),
                        !.cycle_count = cc]
    ELSE [a EXCEPT !.state = "Work",
                   !.time_remaining = FromMinutes(a.config.work_duration)]

\* advance_state comparing with > in place of >=
advance_state_off_by_one(a) ==
    IF a.state = "Work"
    THEN LET cc == a.cycle_count + 1 IN
         IF cc > a.config.cycles_before_long
         THEN [a EXCEPT !.state = "LongBreak",
                        !.time_remaining = FromMinutes(a.config.long_break),
                        !.cycle_count = 0,
                        !.paused = TRUE]
         ELSE [a EXCEPT !.state = "ShortBreak",
                        !.time_remaining = FromMinutes(a.config.short_break),
                        !.cycle_count = cc,
                        !.paused = TRUE]
    ELSE [a EXCEPT !.state = "Work",
                   !.time_remaining = FromMinutes(a.config.work_duration),
                   !.paused = TRUE]

\* advance_state that also counts a finished break as a cycle
advance_state_counts_breaks(a) ==
    LET cc == a.cycle_count + 1 IN
    IF a.state = "Work"
    THEN IF cc >= a.config.cycles_before_long
         THEN [a EXCEPT !.state = "LongBreak",
                        !.time_remaining = FromMinutes(a.config.long_break),
                        !.cycle_count = 0,
                        !.paused = TRUE]
         ELSE [a EXCEPT !.state = "ShortBreak",
                        !.time_remaining = FromMinutes(a.config.short_break),
                        !.cycle_count = cc,
                        !.paused = TRUE]
    ELSE [a EXCEPT !.state = "Work",
                   !.time_remaining = FromMinutes(a.config.work_duration),
                   !.cycle_count = cc,
                   !.paused = TRUE]

\* App::advance_state
advance_state(a) ==
    IF a.state = "Work"
    THEN LET cc == a.cycle_count + 1 IN
         IF cc >= a.config.cycles_before_long
         THEN [a EXCEPT !.state = "LongBreak",
                        !.time_remaining = FromMinutes(a.config.long_break),
                        !.cycle_count = 0,
                        !.paused = TRUE]
         ELSE [a EXCEPT !.state = "ShortBreak",
                        !.time_remaining = FromMinutes(a.config.short_break),
                        !.cycle_count = cc,
                        !.paused = TRUE]
    ELSE [a EXCEPT !.state = "Work",
                   !.time_remaining = FromMinutes(a.config.work_duration),
                   !.paused = TRUE]

\* update that does not look at the paused flag
update_ignores_pause(a, t) ==
    LET elapsed == t - a.last_tick
        sub == checked_sub(a.time_remaining, elapsed)
    IN  IF sub.some
        THEN [a EXCEPT !.last_tick = t, !.time_remaining = sub.val]
        ELSE advance_state([a EXCEPT !.last_tick = t, !.time_remaining = 0])

\* App::update with Instant::now() = t
update(a, t) ==
    IF ~a.paused
    THEN LET elapsed == t - a.last_tick
             sub == checked_sub(a.time_remaining, elapsed)
         IN  IF sub.some
             THEN [a EXCEPT !.last_tick = t, !.time_remaining = sub.val]
             ELSE advance_state([a EXCEPT !.last_tick = t, !.time_remaining = 0])
    ELSE a

\* draw_clock / draw_digit: DIGITS[digit] with digit1 = mins / 10 is out of
\* bounds (a panic) when the minutes need three digits
DrawPanics(a) == ((a.time_remaining \div 60) \div 10) >= NumDigits

\* draw_statusline: self.height - 1 on u16 underflows, a panic in a build with
\* overflow checks (without them it wraps and the draw goes on)
statusline_underflows(a) == a.height < 1

\* draw_config: self.height / 2 - 10 on u16 underflows, likewise
config_underflows(a) == a.height \div 2 < 10

\* toggle-pause that leaves last_tick alone on resume
toggle_pause_stale_tick(a, t) == [a EXCEPT !.paused = ~a.paused]

\* run_app, KeyCode::Char(' '): flip paused; on resume last_tick = Instant::now() = t
toggle_pause(a, t) ==
    LET p == ~a.paused IN
    [a EXCEPT !.paused = p, !.last_tick = IF ~p THEN t ELSE @]

\* reset that keeps the cycle count
manual_reset_keeps_cycles(a) ==
    [a EXCEPT !.paused = TRUE,
              !.state = "Work",
              !.time_remaining = FromMinutes(a.config.work_duration)]

\* run_app, KeyCode::Char('r') | Char('R')
manual_reset(a) ==
    [a EXCEPT !.paused = TRUE,
              !.cycle_count = 0,
              !.state = "Work",
              !.time_remaining = FromMinutes(a.config.work_duration)]

\* themes.iter().position(..): 1-based index of the name, 0 for None
ThemePosition(name) ==
    IF \E i \in 1..Len(Themes) : Themes[i] = name
    THEN CHOOSE i \in 1..Len(Themes) : Themes[i] = name
    ELSE 0

\* x.saturating_sub(1).max(1)
dec_field(v) == Max(saturating_sub(v, 1), MinField)

\* a u32 at its full width, as its two 16-bit halves: the value 65536 * hi + lo
Halves(v) == [hi |-> v \div 65536, lo |-> v % 65536]

\* u32::MAX = 65535 * 65536 + 65535
U32Max == [hi |-> 65535, lo |-> 65535]

\* x + 1 on u32 without overflow checks: u32::MAX wraps to 0
add_one(x) ==
    IF x.lo < 65535 THEN [hi |-> x.hi, lo |-> x.lo + 1]
    ELSE IF x.hi < 65535 THEN [hi |-> x.hi + 1, lo |-> 0]
    ELSE [hi |-> 0, lo |-> 0]

\* x.min(max), for the maxima of the editor (all below 65536)
min_field(x, max) == IF x.hi = 0 /\ x.lo <= max THEN x.lo ELSE max

\* (x + 1).min(max) on the halves of x
inc_halves(x, max) == min_field(add_one(x), max)

\* x + 1 does not fit u32
add_overflows(v) == Halves(v) = U32Max

\* (x + 1).min(max); without overflow checks x + 1 wraps to 0 at u32::MAX
inc_field(v, max) == inc_halves(Halves(v), max)

\* handle_config_input, KeyCode::Char('l') | Right: the x + 1 of the row at the
\* cursor overflows, a panic in a build with overflow checks
increment_overflows(a) ==
    CASE a.config_cursor = 1 -> add_overflows(a.config.work_duration)
      [] a.config_cursor = 2 -> add_overflows(a.config.short_break)
      [] a.config_cursor = 3 -> add_overflows(a.config.long_break)
      [] a.config_cursor = 4 -> add_overflows(a.config.cycles_before_long)
      [] OTHER -> FALSE

\* handle_config_input, KeyCode::Char('h') | Left
config_decrement(a) ==
    CASE a.config_cursor = 0 ->
           LET pos == ThemePosition(a.config.theme) IN
           IF pos # 0
           THEN LET new_pos == IF pos = 1 THEN Len(Themes) ELSE pos - 1 IN
                [a EXCEPT !.config.theme = Themes[new_pos],
                          !.theme = ThemeFromName(Themes[new_pos])]
           ELSE a
      [] a.config_cursor = 1 -> [a EXCEPT !.config.work_duration = dec_field(@)]
      [] a.config_cursor = 2 -> [a EXCEPT !.config.short_break = dec_field(@)]
      [] a.config_cursor = 3 -> [a EXCEPT !.config.long_break = dec_field(@)]
      [] a.config_cursor = 4 -> [a EXCEPT !.config.cycles_before_long = dec_field(@)]
      [] OTHER -> a

\* handle_config_input, KeyCode::Char('l') | Right
config_increment(a) ==
    CASE a.config_cursor = 0 ->
           LET pos == ThemePosition(a.config.theme) IN
           IF pos # 0
           THEN LET new_pos == (pos % Len(Themes)) + 1 IN
                [a EXCEPT !.config.theme = Themes[new_pos],
                          !.theme = ThemeFromName(Themes[new_pos])]
           ELSE a
      [] a.config_cursor = 1 ->
           [a EXCEPT !.config.work_duration = inc_field(@, MaxWorkDuration)]
      [] a.config_cursor = 2 ->
           [a EXCEPT !.config.short_break = inc_field(@, MaxShortBreak)]
      [] a.config_cursor = 3 ->
           [a EXCEPT !.config.long_break = inc_field(@, MaxLongBreak)]
      [] a.config_cursor = 4 ->
           [a EXCEPT !.config.cycles_before_long = inc_field(@, MaxCycles)]
      [] OTHER -> a

\* cursor down that also reseeds the countdown from the configuration
cursor_down_reseeds(a) ==
    [a EXCEPT !.config_cursor = Min(@ + 1, MaxCursor),
              !.time_remaining = FromMinutes(a.config.work_duration)]

\* handle_config_input, KeyCode::Char('j') | Down
cursor_down(a) == [a EXCEPT !.config_cursor = Min(@ + 1, MaxCursor)]

\* handle_config_input, KeyCode::Char('k') | Up
cursor_up(a) == [a EXCEPT !.config_cursor = saturating_sub(@, 1)]

\* q | Esc that leaves config_mode set
leave_config_stays(a) == a

\* handle_config_input, KeyCode::Char('q') | Esc, before save_config
leave_config(a) == [a EXCEPT !.config_mode = FALSE]

\* handle_config_input, after save_config succeeded
refresh_theme(a) == [a EXCEPT !.theme = ThemeFromName(a.config.theme)]

\* a save that writes the built-in defaults in place of the edited values
save_config_defaults(a) == [kind |-> "json", cfg |-> DefaultConfig]

\* App::save_config: the file now holds the serialised in-memory config
save_config(a) == [kind |-> "json", cfg |-> a.config]

\* run_app, KeyCode::Char('c') | Char('C')
enter_config(a) == [a EXCEPT !.config_mode = TRUE]

\* run_app, Event::Resize(w, h)
resize(a, sz) == [a EXCEPT !.width = sz[1], !.height = sz[2]]

\* run_app: key.modifiers.contains(CONTROL) && key.code == Char('c')
IsInterrupt(k) == k.ctrl /\ k.code = "c"

----------------------------------------------------------------------------
\* History variables

\* seconds of the interval [a2.last_tick, t2] spent paused / in ConfigEdit,
\* after a step that took the clock from now to t2 and the app to a2
IdleAfter(a2, t2) ==
    IF a2.last_tick = t2
    THEN [paused |-> 0, config |-> 0]
    ELSE [paused |-> idle.paused + (IF app.paused THEN t2 - now ELSE 0),
          config |-> idle.config + (IF app.config_mode THEN t2 - now ELSE 0)]

\* run after a phase-advance out of the state of `a`
RunAdvance(a) ==
    IF a.state = "Work"
    THEN IF run >= 0 /\ run < MaxRun THEN run + 1 ELSE -1
    ELSE run

\* update(a, t) takes the expiry branch
Expires(a, t) == ~a.paused /\ t - a.last_tick > a.time_remaining

----------------------------------------------------------------------------
\* Initial state: App::new has returned

Start(F, Z, t) ==
    \E f \in F, io \in LoadOutcomes, sz \in Z :
        LET n == New(f, io, sz, t) IN
        /\ app = n.app
        /\ file = n.file
        /\ now = t
        /\ pc = IF n.ok THEN "enable_raw" ELSE "done"
        /\ result = IF n.ok THEN "none" ELSE "err"
        /\ raw_mode = FALSE
        /\ alt_screen = FALSE
        /\ idle = [paused |-> 0, config |-> 0]
        /\ run = 0
        /\ edits = 0

Init == Start(Files, Sizes, 0)

----------------------------------------------------------------------------
\* main: setup and teardown

EnableRaw ==
    /\ pc = "enable_raw"
    /\ raw_mode' = TRUE
    /\ pc' = "enter_alt"
    /\ UNCHANGED <<app, file, now, result, alt_screen, idle, run, edits>>

EnableRawError ==
    /\ pc = "enable_raw"
    /\ pc' = "done"
    /\ result' = "err"
    /\ UNCHANGED <<app, file, now, raw_mode, alt_screen, idle, run, edits>>

EnterAlt ==
    /\ pc = "enter_alt"
    /\ alt_screen' = TRUE
    /\ pc' = "top"
    /\ UNCHANGED <<app, file, now, result, raw_mode, idle, run, edits>>

\* execute!(stdout, EnterAlternateScreen, cursor::Hide)? returns early. The
\* escape sequence stays in the buffer of Stdout, which is flushed as the
\* process exits: the terminal enters the alternate screen after all when that
\* last write goes through, and does not when it fails too
EnterAltError ==
    /\ pc = "enter_alt"
    /\ pc' = "done"
    /\ result' = "err"
    /\ alt_screen' \in {FALSE, TRUE}
    /\ UNCHANGED <<app, file, now, raw_mode, idle, run, edits>>

LeaveAlt ==
    /\ pc = "leave_alt"
    /\ alt_screen' = FALSE
    /\ pc' = "disable_raw"
    /\ UNCHANGED <<app, file, now, result, raw_mode, idle, run, edits>>

\* execute!(stdout, LeaveAlternateScreen, cursor::Show)? returns early; the
\* buffered escape sequence is written at exit or lost, as in EnterAltError
LeaveAltError ==
    /\ pc = "leave_alt"
    /\ pc' = "done"
    /\ result' = "err"
    /\ alt_screen' \in {TRUE, FALSE}
    /\ UNCHANGED <<app, file, now, raw_mode, idle, run, edits>>

DisableRaw ==
    /\ pc = "disable_raw"
    /\ raw_mode' = FALSE
    /\ pc' = "done"
    /\ UNCHANGED <<app, file, now, result, alt_screen, idle, run, edits>>

DisableRawError ==
    /\ pc = "disable_raw"
    /\ pc' = "done"
    /\ result' = "err"
    /\ UNCHANGED <<app, file, now, raw_mode, alt_screen, idle, run, edits>>

----------------------------------------------------------------------------
\* run_app: the top of one loop iteration (render)

\* the loop body goes on: app, clock and position change, the terminal stays
Loop(a2, t2, pc2) ==
    /\ app' = a2
    /\ now' = t2
    /\ pc' = pc2
    /\ idle' = IdleAfter(a2, t2)
    /\ UNCHANGED <<raw_mode, alt_screen>>

\* Normal mode: app.update(); app.draw(). update reads Instant::now() anew:
\* later than (or the same as) the instant the last handler or poll read
Tick ==
    /\ pc = "top"
    /\ ~app.config_mode
    /\ \E d \in Deltas :
        /\ now + d <= MaxNow
        /\ LET a2 == update(app, now + d)
           IN  /\ ~DrawPanics(a2)
               /\ Loop(a2, now + d, "poll")
        /\ run' = IF Expires(app, now + d) THEN RunAdvance(app) ELSE run
    /\ UNCHANGED <<file, result, edits>>

\* Normal mode: app.update(); app.draw() indexes DIGITS out of bounds, or
\* underflows in a build with overflow checks
TickPanic ==
    /\ pc = "top"
    /\ ~app.config_mode
    /\ \E d \in Deltas :
        /\ now + d <= MaxNow
        /\ LET a2 == update(app, now + d)
           IN  /\ DrawPanics(a2) \/ statusline_underflows(a2)
               /\ Loop(a2, now + d, "done")
        /\ run' = IF Expires(app, now + d) THEN RunAdvance(app) ELSE run
    /\ result' = "panic"
    /\ UNCHANGED <<file, edits>>

\* Normal mode: app.update(); app.draw()? fails writing to the terminal
TickDrawError ==
    /\ pc = "top"
    /\ ~app.config_mode
    /\ \E d \in Deltas :
        /\ now + d <= MaxNow
        /\ Loop(update(app, now + d), now + d, "leave_alt")
        /\ run' = IF Expires(app, now + d) THEN RunAdvance(app) ELSE run
    /\ result' = "err"
    /\ UNCHANGED <<file, edits>>

\* ConfigEdit mode: app.draw_config()
DrawConfig ==
    /\ pc = "top"
    /\ app.config_mode
    /\ Loop(app, now, "poll")
    /\ UNCHANGED <<file, result, run, edits>>

\* ConfigEdit mode: app.draw_config() underflows in a build with overflow checks
DrawConfigPanic ==
    /\ pc = "top"
    /\ app.config_mode
    /\ config_underflows(app)
    /\ Loop(app, now, "done")
    /\ result' = "panic"
    /\ UNCHANGED <<file, run, edits>>

\* ConfigEdit mode: app.draw_config()? fails writing to the terminal
DrawConfigError ==
    /\ pc = "top"
    /\ app.config_mode
    /\ Loop(app, now, "leave_alt")
    /\ result' = "err"
    /\ UNCHANGED <<file, run, edits>>

----------------------------------------------------------------------------
\* run_app: event::poll(50 ms) and the dispatch of what it read

\* poll returned false, or an event that is neither a key nor a resize
PollTimeout ==
    /\ pc = "poll"
    /\ \E d \in Deltas :
        /\ now + d <= MaxNow
        /\ Loop(app, now + d, "top")
    /\ UNCHANGED <<file, result, run, edits>>

\* event::poll(..)? or event::read()? fails
PollError ==
    /\ pc = "poll"
    /\ Loop(app, now, "leave_alt")
    /\ result' = "err"
    /\ UNCHANGED <<file, run, edits>>

\* Event::Resize(w, h)
Resize ==
    /\ pc = "poll"
    /\ \E d \in Deltas, sz \in Sizes :
        /\ now + d <= MaxNow
        /\ Loop(resize(app, sz), now + d, "top")
    /\ UNCHANGED <<file, result, run, edits>>

\* Event::Resize(w, h) to a terminal of SmallSizes
ResizeSmall ==
    /\ pc = "poll"
    /\ \E d \in Deltas, sz \in SmallSizes :
        /\ now + d <= MaxNow
        /\ Loop(resize(app, sz), now + d, "top")
    /\ UNCHANGED <<file, result, run, edits>>

\* Ctrl+C in either mode: break
KeyInterrupt ==
    /\ pc = "poll"
    /\ \E k \in Keys :
        /\ IsInterrupt(k)
        /\ Loop(app, now, "leave_alt")
    /\ result' = "ok"
    /\ UNCHANGED <<file, run, edits>>

\* Normal mode, q | Q: break
KeyQuit ==
    /\ pc = "poll"
    /\ ~app.config_mode
    /\ \E k \in Keys :
        /\ ~IsInterrupt(k) /\ k.code \in {"q", "Q"}
        /\ Loop(app, now, "leave_alt")
    /\ result' = "ok"
    /\ UNCHANGED <<file, run, edits>>

\* Normal mode, space
KeyTogglePause ==
    /\ pc = "poll"
    /\ ~app.config_mode
    /\ \E k \in Keys : ~IsInterrupt(k) /\ k.code = " "
    /\ \E d \in Deltas :
        /\ now + d <= MaxNow
        /\ Loop(toggle_pause(app, now + d), now + d, "top")
    /\ UNCHANGED <<file, result, run, edits>>

\* Normal mode, r | R
KeyReset ==
    /\ pc = "poll"
    /\ ~app.config_mode
    /\ \E k \in Keys : ~IsInterrupt(k) /\ k.code \in {"r", "R"}
    /\ \E d \in Deltas :
        /\ now + d <= MaxNow
        /\ Loop(manual_reset(app), now + d, "top")
    /\ run' = -1
    /\ UNCHANGED <<file, result, edits>>

\* Normal mode, s | S
KeySkip ==
    /\ pc = "poll"
    /\ ~app.config_mode
    /\ \E k \in Keys : ~IsInterrupt(k) /\ k.code \in {"s", "S"}
    /\ \E d \in Deltas :
        /\ now + d <= MaxNow
        /\ Loop(advance_state(app), now + d, "top")
    /\ run' = RunAdvance(app)
    /\ UNCHANGED <<file, result, edits>>

\* Normal mode, c | C (Ctrl+C excepted)
KeyEnterConfig ==
    /\ pc = "poll"
    /\ ~app.config_mode
    /\ \E k \in Keys : ~IsInterrupt(k) /\ k.code \in {"c", "C"}
    /\ \E d \in Deltas :
        /\ now + d <= MaxNow
        /\ Loop(enter_config(app), now + d, "top")
    /\ UNCHANGED <<file, result, run, edits>>

\* Normal mode, any other key
KeyOther ==
    /\ pc = "poll"
    /\ ~app.config_mode
    /\ \E k \in Keys :
        /\ ~IsInterrupt(k)
        /\ k.code \notin {"q", "Q", " ", "r", "R", "s", "S", "c", "C"}
    /\ \E d \in Deltas :
        /\ now + d <= MaxNow
        /\ Loop(app, now + d, "top")
    /\ UNCHANGED <<file, result, run, edits>>

\* ConfigEdit mode, q | Esc: config_mode = false; save_config()?; theme refreshed
ConfigSaveExit ==
    /\ pc = "poll"
    /\ app.config_mode
    /\ \E k \in Keys : ~IsInterrupt(k) /\ k.code \in {"q", "Esc"}
    /\ \E d \in Deltas :
        /\ now + d <= MaxNow
        /\ Loop(refresh_theme(leave_config(app)), now + d, "top")
    /\ file' = save_config(app)
    /\ UNCHANGED <<result, run, edits>>

\* ConfigEdit mode, q | Esc: save_config()? fails, the file is untouched or cut short
ConfigSaveError ==
    /\ pc = "poll"
    /\ app.config_mode
    /\ \E k \in Keys :
        /\ ~IsInterrupt(k) /\ k.code \in {"q", "Esc"}
        /\ Loop(leave_config(app), now, "leave_alt")
    /\ \E f \in {file, [kind |-> "corrupt", cfg |-> DefaultConfig]} : file' = f
    /\ result' = "err"
    /\ UNCHANGED <<run, edits>>

\* ConfigEdit mode, j | Down
ConfigDown ==
    /\ pc = "poll"
    /\ app.config_mode
    /\ \E k \in Keys : ~IsInterrupt(k) /\ k.code \in {"j", "Down"}
    /\ \E d \in Deltas :
        /\ now + d <= MaxNow
        /\ Loop(cursor_down(app), now + d, "top")
    /\ UNCHANGED <<file, result, run, edits>>

\* ConfigEdit mode, k | Up
ConfigUp ==
    /\ pc = "poll"
    /\ app.config_mode
    /\ \E k \in Keys : ~IsInterrupt(k) /\ k.code \in {"k", "Up"}
    /\ \E d \in Deltas :
        /\ now + d <= MaxNow
        /\ Loop(cursor_up(app), now + d, "top")
    /\ UNCHANGED <<file, result, run, edits>>

\* ConfigEdit mode, h | Left
ConfigDecrement ==
    /\ pc = "poll"
    /\ app.config_mode
    /\ edits < MaxEdits
    /\ \E k \in Keys : ~IsInterrupt(k) /\ k.code \in {"h", "Left"}
    /\ \E d \in Deltas :
        /\ now + d <= MaxNow
        /\ Loop(config_decrement(app), now + d, "top")
    /\ edits' = edits + 1
    /\ run' = -1
    /\ UNCHANGED <<file, result>>

\* ConfigEdit mode, l | Right; where x + 1 overflows the handler panics (overflow
\* checks on) or goes on with the wrapped value
ConfigIncrement ==
    /\ pc = "poll"
    /\ app.config_mode
    /\ edits < MaxEdits
    /\ \E k \in Keys : ~IsInterrupt(k) /\ k.code \in {"l", "Right"}
    /\ \E d \in Deltas,
          pc2 \in (IF increment_overflows(app) THEN {"top", "done"} ELSE {"top"}) :
        /\ now + d <= MaxNow
        /\ Loop(IF pc2 = "top" THEN config_increment(app) ELSE app, now + d, pc2)
        /\ result' = IF pc2 = "top" THEN result ELSE "panic"
    /\ edits' = edits + 1
    /\ run' = -1
    /\ UNCHANGED file

\* ConfigEdit mode, any other key
ConfigOther ==
    /\ pc = "poll"
    /\ app.config_mode
    /\ \E k \in Keys :
        /\ ~IsInterrupt(k)
        /\ k.code \notin {"q", "Esc", "j", "Down", "k", "Up", "h", "Left", "l", "Right"}
    /\ \E d \in Deltas :
        /\ now + d <= MaxNow
        /\ Loop(app, now + d, "top")
    /\ UNCHANGED <<file, result, run, edits>>

----------------------------------------------------------------------------

Next ==
    \/ EnableRaw \/ EnableRawError \/ EnterAlt \/ EnterAltError
    \/ Tick \/ TickPanic \/ TickDrawError
    \/ DrawConfig \/ DrawConfigError
    \/ PollTimeout \/ PollError \/ Resize
    \/ KeyInterrupt \/ KeyQuit \/ KeyTogglePause \/ KeyReset \/ KeySkip
    \/ KeyEnterConfig \/ KeyOther
    \/ ConfigSaveExit \/ ConfigSaveError \/ ConfigDown \/ ConfigUp
    \/ ConfigDecrement \/ ConfigIncrement \/ ConfigOther

Spec == Init /\ [][Next]_vars

\* Next is the loop on a terminal of Sizes, where no subtraction of the draw
\* functions underflows; NextMain adds the small terminals.

\* the editor, explored with the clock one step before the end of its window
InitEdit == Start(FilesEdit, Sizes, MaxNow - 60)

SpecEdit == InitEdit /\ [][Next]_vars

\* main as a whole, teardown and small terminals included
InitMain == Start(FilesMain, Sizes \cup SmallSizes, 0)

NextMain ==
    \/ Next
    \/ ResizeSmall \/ DrawConfigPanic
    \/ LeaveAlt \/ LeaveAltError \/ DisableRaw \/ DisableRawError

SpecMain == InitMain /\ [][NextMain]_vars

\* the loop left alone while the timer runs: the terminal and the reads do not
\* fail, and keys (space, s) are pressed only while the timer is paused
FilesLive == { Json(ShortConfig), Json(ZeroConfig) }

InitLive == Start(FilesLive, Sizes, 0)

\* space pressed on a paused timer
Resume == app.paused /\ KeyTogglePause

\* s pressed on a paused timer
SkipPaused == app.paused /\ KeySkip

\* the poll returns after wall-clock time has passed
PollAdvance == PollTimeout /\ now' > now

NextLive ==
    \/ EnableRaw \/ EnterAlt
    \/ Tick \/ PollTimeout
    \/ Resume \/ SkipPaused

\* the loop keeps iterating (Tick) and the wall clock keeps advancing between
\* ticks (the poll waits up to 50 ms)
SpecLive ==
    InitLive /\ [][NextLive]_vars /\ WF_vars(Tick) /\ SF_vars(PollAdvance)

----------------------------------------------------------------------------
\* Steps the properties speak about

\* a loop iteration in Normal mode: update() ran
TickStep == Tick \/ TickPanic \/ TickDrawError

\* update() took the expiry branch and called advance_state
ExpiryStep == TickStep /\ Expires(app, now')

\* advance_state ran, from expiry or from the skip key
AdvanceStep == ExpiryStep \/ KeySkip

\* seconds of time_remaining a step used up
Charged(a, b) ==
    IF b.state = a.state THEN a.time_remaining - b.time_remaining
    ELSE a.time_remaining

\* the numeric field of row i of the editor, and its maximum
FieldOf(c, i) ==
    CASE i = 1 -> c.work_duration
      [] i = 2 -> c.short_break
      [] i = 3 -> c.long_break
      [] i = 4 -> c.cycles_before_long

FieldMax(i) ==
    CASE i = 1 -> 120
      [] i = 2 -> 60
      [] i = 3 -> 120
      [] i = 4 -> 10

NumericRows == 1..4

----------------------------------------------------------------------------
\* C1: a phase-advance, from expiry or from the skip key, follows the
\* transition table: Work goes to ShortBreak with the cycle count one higher
\* while cycle_count + 1 < cycles_before_long, and to LongBreak with the cycle
\* count 0 otherwise; a break goes to Work with the cycle count unchanged;
\* time_remaining becomes the new phase's configured minutes and paused is true.
PhaseTable(a, b) ==
    /\ (a.state = "Work" /\ a.cycle_count + 1 < a.config.cycles_before_long) =>
           /\ b.state = "ShortBreak"
           /\ b.cycle_count = a.cycle_count + 1
           /\ b.time_remaining = a.config.short_break * 60
    /\ (a.state = "Work" /\ a.cycle_count + 1 >= a.config.cycles_before_long) =>
           /\ b.state = "LongBreak"
           /\ b.cycle_count = 0
           /\ b.time_remaining = a.config.long_break * 60
    /\ a.state \in {"ShortBreak", "LongBreak"} =>
           /\ b.state = "Work"
           /\ b.cycle_count = a.cycle_count
           /\ b.time_remaining = a.config.work_duration * 60
    /\ b.paused
    /\ b.config = a.config

C1_PhaseAdvanceTable == [][AdvanceStep => PhaseTable(app, app')]_vars

\* a second cycle has been counted on the way to the long break
C1_Witness ==
    /\ app.state = "ShortBreak"
    /\ app.cycle_count = 2
    /\ app.paused
    /\ app.time_remaining = app.config.short_break * 60

\* C2: from Work with cycle_count = 0 and cycles_before_long = N, with no reset
\* and no edit, the k-th phase-advance out of Work lands on ShortBreak with
\* cycle_count = k for k < N and the N-th on LongBreak with cycle_count = 0.
C2_KthWorkCompletion ==
    [][(AdvanceStep /\ app.state = "Work" /\ run >= 0 /\ run' >= 0) =>
          LET k == run'
              N == app.config.cycles_before_long
          IN  /\ k < N => (app'.state = "ShortBreak" /\ app'.cycle_count = k)
              /\ k = N => (app'.state = "LongBreak" /\ app'.cycle_count = 0)]_vars

\* the fourth Work completion of an untouched N = 4 run has landed on the long break
C2_Witness ==
    /\ run = 4
    /\ app.config.cycles_before_long = 4
    /\ app.state = "LongBreak"
    /\ app.cycle_count = 0
    /\ edits = 0

\* C3: time spent in ConfigEdit mode is never subtracted from time_remaining and
\* causes no phase transition: the first Normal-mode tick of a running timer
\* uses up only the time that passed outside ConfigEdit mode.
C3_ConfigTimeFrozen ==
    [][(TickStep /\ ~app.paused) =>
          LET outside == (now' - app.last_tick) - idle.config IN
          IF outside <= app.time_remaining
          THEN /\ app'.state = app.state
               /\ app'.time_remaining = app.time_remaining - outside
          ELSE app'.state # app.state]_vars

\* C4: no paused time is charged: resuming sets last_tick to the current
\* instant, an update at that instant leaves time_remaining unchanged, and an
\* update never uses up more than the part of [last_tick, now] spent running.
C4_NoPhantomTime ==
    [][/\ (app.paused /\ ~app'.paused) => app'.last_tick = now'
       /\ TickStep =>
            /\ Charged(app, app') <= (now' - app.last_tick) - idle.paused
            /\ now' = app.last_tick => app'.time_remaining = app.time_remaining]_vars

\* a running timer has ticked with its full work duration although the clock has
\* moved on: all the time so far went by while paused
C4_Witness ==
    /\ pc = "poll"
    /\ ~app.paused
    /\ now > 0
    /\ app.last_tick = now
    /\ app.state = "Work"
    /\ app.time_remaining = app.config.work_duration * 60
    /\ app.time_remaining > 0
    /\ run = 0

\* C5 as stated: no unpaused update raises time_remaining or takes it below 0.
C5_NeverIncreases ==
    [][(TickStep /\ ~app.paused) =>
          /\ app'.time_remaining <= app.time_remaining
          /\ app'.time_remaining >= 0]_vars

\* C5 amended: time_remaining is never negative; an unpaused update that does
\* not expire the phase does not raise it, and one that expires the phase
\* reseeds it to the configured duration of the new phase.
C5_NonIncreasingUntilExpiry ==
    [][/\ app'.time_remaining >= 0
       /\ (TickStep /\ ~app.paused) =>
            IF now' - app.last_tick <= app.time_remaining
            THEN /\ app'.time_remaining = app.time_remaining - (now' - app.last_tick)
                 /\ app'.time_remaining <= app.time_remaining
                 /\ app'.state = app.state
            ELSE PhaseTable(app, app')]_vars

\* an expired work phase has put a short break of more seconds than were left
C5_Witness ==
    /\ pc = "poll"
    /\ app.paused
    /\ app.state = "ShortBreak"
    /\ app.last_tick = now
    /\ now = MaxNow
    /\ app.time_remaining = 60
    /\ run = 1

\* C6: the reset key yields Work, cycle_count 0, the configured work duration
\* and paused from any state, touches nothing else, and a second reset changes
\* nothing.
C6_ManualReset ==
    [][KeyReset =>
          /\ app' = [app EXCEPT !.state = "Work",
                                !.cycle_count = 0,
                                !.time_remaining = app.config.work_duration * 60,
                                !.paused = TRUE]
          /\ manual_reset(app') = app']_vars

\* a reset has brought a run that had counted cycles back to Work / 0
C6_Witness ==
    /\ run = -1
    /\ edits = 0
    /\ pc = "top"
    /\ app.state = "Work"
    /\ app.cycle_count = 0
    /\ app.paused
    /\ now > 0

\* C7: the phase and the cycle count change only in an unpaused Normal-mode tick
\* whose elapsed time exhausts time_remaining, in a skip or in a reset.
C7_PhaseChangesOnlyOnExpirySkipReset ==
    [][(app'.state # app.state \/ app'.cycle_count # app.cycle_count) =>
          \/ /\ TickStep
             /\ ~app.config_mode
             /\ ~app.paused
             /\ now' - app.last_tick >= app.time_remaining
          \/ KeySkip
          \/ KeyReset]_vars

\* a running timer's tick has expired the work phase
C7_Witness ==
    /\ pc = "poll"
    /\ app.state = "ShortBreak"
    /\ app.cycle_count = 1
    /\ app.paused
    /\ app.last_tick = now
    /\ now > 0

\* C8: once raw mode has been enabled, main does not end with raw mode still
\* enabled or the alternate screen still active, however the loop ended.
C8_TerminalRestored == pc = "done" => (~raw_mode /\ ~alt_screen)

\* values of a u32 field: around 1, around the maxima of the editor, and up to
\* the end of the range
FieldValues ==
    { Halves(v) : v \in {0, 1, 2, 9, 10, 11, 59, 60, 61, 119, 120, 121, 200, 65535, 65536} }
    \cup { [hi |-> 32768, lo |-> 0], [hi |-> 65535, lo |-> 65534], U32Max }

\* C9: in ConfigEdit mode a decrement lowers the numeric field at the cursor by
\* 1 but never below 1, an increment raises it by 1 but never above the field's
\* maximum, whatever u32 the field holds, and the other fields are unchanged.
C9_FieldEditsSaturate ==
    /\ \A i \in NumericRows, x \in FieldValues :
          inc_halves(x, FieldMax(i)) =
              (IF x.hi = 0 /\ x.lo < FieldMax(i) THEN x.lo + 1 ELSE FieldMax(i))
    /\ [][\A i \in NumericRows : app.config_cursor = i =>
             LET v == FieldOf(app.config, i) IN
             /\ (ConfigDecrement \/ ConfigIncrement) =>
                   /\ \A j \in NumericRows \ {i} :
                         FieldOf(app'.config, j) = FieldOf(app.config, j)
                   /\ app'.config.theme = app.config.theme
             /\ ConfigDecrement =>
                   FieldOf(app'.config, i) = (IF v > 1 THEN v - 1 ELSE 1)
             /\ ConfigIncrement =>
                   FieldOf(app'.config, i) =
                       (IF v < FieldMax(i) THEN v + 1 ELSE FieldMax(i))]_vars

\* C10: every numeric field is >= 1 in every state, and the field an increment
\* or decrement was applied to lies in [1, max] whatever value it was loaded with.
C10_FieldsInRange ==
    [][/\ \A i \in NumericRows : FieldOf(app'.config, i) >= 1
       /\ \A i \in NumericRows :
            ((ConfigDecrement \/ ConfigIncrement) /\ app.config_cursor = i) =>
                FieldOf(app'.config, i) \in 1..FieldMax(i)]_vars

----------------------------------------------------------------------------
\* the ordered list of theme names the editor cycles through
ThemeOrder == <<"blue", "purple", "green", "red", "orange", "cyan">>

ThemeKnown(name) == \E i \in 1..Len(ThemeOrder) : ThemeOrder[i] = name

ThemeIndex(name) == CHOOSE i \in 1..Len(ThemeOrder) : ThemeOrder[i] = name

\* successor and predecessor in ThemeOrder, wrapping at both ends
ThemeNext(name) ==
    IF ThemeKnown(name)
    THEN ThemeOrder[IF ThemeIndex(name) = Len(ThemeOrder) THEN 1 ELSE ThemeIndex(name) + 1]
    ELSE name

ThemePrev(name) ==
    IF ThemeKnown(name)
    THEN ThemeOrder[IF ThemeIndex(name) = 1 THEN Len(ThemeOrder) ELSE ThemeIndex(name) - 1]
    ELSE name

\* C11: with the cursor on the theme field, for every theme name the
\* configuration holds, an increment moves the theme to its successor and a
\* decrement to its predecessor in [blue, purple, green, red, orange, cyan],
\* wrapping at both ends; the theme always changes on such a key, and an
\* increment followed by a decrement restores it.
C11_ThemeCycles ==
    [][/\ (ConfigIncrement /\ app.config_cursor = 0) =>
            /\ app'.config.theme # app.config.theme
            /\ app'.config.theme = ThemeNext(app.config.theme)
            /\ config_decrement(app').config.theme = app.config.theme
       /\ (ConfigDecrement /\ app.config_cursor = 0) =>
            /\ app'.config.theme # app.config.theme
            /\ app'.config.theme = ThemePrev(app.config.theme)
            /\ config_increment(app').config.theme = app.config.theme]_vars

\* C12: q or Esc in ConfigEdit mode switches back to Normal mode; then either
\* the stored configuration equals the in-memory one, the active theme is the
\* one named by config.theme and the loop goes on, or the write failed and the
\* loop has ended with the error.
C12_SaveAndExit ==
    [][(ConfigSaveExit \/ ConfigSaveError) =>
          /\ ~app'.config_mode
          /\ app'.config = app.config
          /\ \/ /\ pc' = "top"
                /\ result' = result
                /\ file' = [kind |-> "json", cfg |-> app'.config]
                /\ app'.theme = ThemeFromName(app'.config.theme)
             \/ /\ pc' = "leave_alt"
                /\ result' = "err"]_vars

\* an edited configuration (the theme wrapped from blue back to cyan) has been
\* saved during the first short break, and the active theme follows it
C12_Witness ==
    /\ pc = "top"
    /\ ~app.config_mode
    /\ edits = 1
    /\ app.state = "ShortBreak"
    /\ app.cycle_count = 1
    /\ app.config = [ShortConfig EXCEPT !.theme = "cyan"]
    /\ file = [kind |-> "json", cfg |-> app.config]
    /\ app.theme = ThemeFromName("cyan")

\* C13: loading the configuration never fails because of the content or the
\* absence of the config file: with every other I/O call succeeding, App::new
\* on the file now on disk succeeds, and a file that is absent or corrupt in any
\* way yields exactly the built-in defaults (a fresh default file being written
\* when there was none).
C13_LoadNeverFails ==
    \A k \in {file.kind, "absent"}, sz \in Sizes :
        LET f == IF k = file.kind THEN file ELSE NoJson(k)
            n == New(f, "ok", sz, now)
        IN  /\ n.ok
            /\ f.kind # "json" => n.app.config = DefaultConfig
            /\ f.kind = "absent" => n.file = [kind |-> "json", cfg |-> DefaultConfig]

\* C14: whenever the loop is in Normal mode, and when the loop has ended, the
\* stored configuration equals the in-memory configuration: no edit made in
\* ConfigEdit mode is lost, whichever way that screen or the program is left.
C14_EditsPersisted ==
    (/\ edits > 0
     /\ result # "err"
     /\ \/ pc \in {"top", "poll"} /\ ~app.config_mode
        \/ pc \in {"leave_alt", "disable_raw", "done"})
    => file = [kind |-> "json", cfg |-> app.config]

\* C15: an unpaused tick with elapsed = now - last_tick subtracts elapsed from
\* time_remaining only when elapsed < time_remaining; whenever elapsed >=
\* time_remaining, equality included, the same tick sets time_remaining to 0 and
\* runs the phase-advance, so no tick ends with time_remaining = 0 and the
\* timer still running (here for a countdown that has time left).
C15_ExpiryAtBoundary ==
    [][(TickStep /\ ~app.paused /\ app.time_remaining > 0) =>
          LET elapsed == now' - app.last_tick IN
          /\ IF elapsed < app.time_remaining
             THEN /\ app'.state = app.state
                  /\ app'.time_remaining = app.time_remaining - elapsed
             ELSE PhaseTable(app, app')
          /\ ~(app'.time_remaining = 0 /\ ~app'.paused)]_vars

\* the fields of the timer proper
Timer(a) == <<a.state, a.cycle_count, a.time_remaining, a.paused, a.last_tick>>

\* a key step that ended the loop with Ok
QuitStep == pc = "poll" /\ pc' = "leave_alt" /\ result' = "ok"

\* C16 as stated: Ctrl+C ends the loop in the iteration it is read, in either
\* mode, with the timer and the configuration untouched; q/Q ends the loop only
\* in Normal mode; in ConfigEdit mode q leaves the loop running and returns to
\* Normal mode.
C16_InterruptAndQuit ==
    [][/\ KeyInterrupt => (QuitStep /\ app' = app /\ file' = file)
       /\ KeyQuit => (QuitStep /\ ~app.config_mode)
       /\ (QuitStep /\ app.config_mode) => KeyInterrupt
       /\ (ConfigSaveExit \/ ConfigSaveError) =>
            (pc' = "top" /\ ~app'.config_mode)]_vars

\* C16 amended: as above, except that q in ConfigEdit mode returns to Normal
\* mode with the loop still running only when the save succeeds; when the save
\* fails the loop ends with the error, never with Ok.
C16_InterruptAndQuitUnlessSaveFails ==
    [][/\ KeyInterrupt => (QuitStep /\ app' = app /\ file' = file)
       /\ KeyQuit => (QuitStep /\ ~app.config_mode)
       /\ (QuitStep /\ app.config_mode) => KeyInterrupt
       /\ (ConfigSaveExit \/ ConfigSaveError) =>
            /\ ~app'.config_mode
            /\ ~QuitStep
            /\ pc' = "top" \/ (pc' = "leave_alt" /\ result' = "err")]_vars

\* Ctrl+C has ended the loop from the config screen, opened while the second
\* short break was running
C16_Witness ==
    /\ pc = "leave_alt"
    /\ result = "ok"
    /\ app.config_mode
    /\ app.config_cursor = MaxCursor
    /\ app.state = "ShortBreak"
    /\ app.cycle_count = 2
    /\ ~app.paused

\* C17: in every reachable state cycle_count < cycles_before_long (here for the
\* thresholds the editor allows, cycles_before_long >= 1), under every
\* interleaving of ticks, skips, resets and configuration edits.
C17_CycleCountBelowThreshold ==
    app.config.cycles_before_long >= 1 =>
        app.cycle_count < app.config.cycles_before_long

\* C18: in every reachable state the minutes of time_remaining are at most 99,
\* so the four digit indices of draw_clock lie in 0..9 and the lookup into the
\* 10-entry DIGITS table is in bounds, for every configuration the editor allows.
C18_ClockDisplayable ==
    (\A i \in NumericRows : FieldOf(app.config, i) \in 1..FieldMax(i)) =>
        LET mins == app.time_remaining \div 60
            secs == app.time_remaining % 60
        IN  /\ mins <= 99
            /\ \A digit \in {mins \div 10, mins % 10, secs \div 10, secs % 10} :
                  digit \in 0..9
            /\ result # "panic"

\* C19: no step taken in ConfigEdit mode (navigation, increment, decrement,
\* save-and-exit, or entering the screen) changes the phase, cycle_count,
\* time_remaining, paused or last_tick: an edited duration does not touch the
\* running countdown, and the running/paused status on return to Normal mode is
\* the one held on entering.
C19_ConfigKeysLeaveTimer ==
    [][(app.config_mode \/ app'.config_mode) => Timer(app') = Timer(app)]_vars

\* back in Normal mode after the short break was raised from 1 to 2 minutes
\* during the second short break: that break is still running with the 60
\* seconds it was seeded with, although a minute went by before it was resumed
C19_Witness ==
    /\ pc = "top"
    /\ ~app.config_mode
    /\ edits = 1
    /\ ~app.paused
    /\ app.state = "ShortBreak"
    /\ app.cycle_count = 2
    /\ app.config.short_break = 2
    /\ app.time_remaining = 60
    /\ app.last_tick > 0

\* the longest time one poll step takes in the model
MaxDelta == CHOOSE d \in Deltas : \A e \in Deltas : e <= d

Phases == {"Work", "ShortBreak", "LongBreak"}

\* the timer runs in Normal mode, and the clock window leaves room for the
\* current phase to run out
Running ==
    /\ pc \in {"top", "poll"}
    /\ ~app.config_mode
    /\ ~app.paused
    /\ app.last_tick + app.time_remaining + MaxDelta <= MaxNow

\* the timer is paused in the phase that follows phase s with cycle count c,
\* with that phase's full configured duration
PausedAfter(s, c) ==
    PhaseTable([state |-> s, cycle_count |-> c, config |-> app.config], app)

\* C20: if the timer is running in Normal mode and no key is pressed while the
\* wall clock keeps advancing between ticks, then eventually the phase expires
\* and the timer is paused in the next phase with its full configured duration;
\* a tick of a running timer either stays in its phase or advances it once and
\* pauses, and a tick of a paused timer changes nothing, so a single resume
\* never carries the timer through two phases.
C20_OneTransitionPerResume ==
    /\ \A s \in Phases, c \in 0..MaxCycles :
          (Running /\ app.state = s /\ app.cycle_count = c) ~> PausedAfter(s, c)
    /\ [][/\ (Tick /\ app.paused) => app' = app
          /\ (Tick /\ ~app.paused) =>
                \/ /\ ~app'.paused
                   /\ app'.state = app.state
                   /\ app'.cycle_count = app.cycle_count
                \/ PhaseTable(app, app')
          /\ app'.state # app.state => app'.paused]_vars

\* a work phase resumed once has run out by the clock alone and the timer rests
\* in the short break
C20_Witness ==
    /\ pc = "poll"
    /\ now = MaxNow
    /\ run = 1
    /\ app.paused
    /\ app.state = "ShortBreak"
    /\ app.cycle_count = 1
    /\ app.time_remaining = app.config.short_break * 60
    /\ app.last_tick = now
    /\ app.config = ShortConfig

====
